---- MODULE Spec2Model ----
(***************************************************************************)
(* Model of the breadth-first crawler of andiblas/website-crawler          *)
(* (pkg/crawler): BreadthFirstCrawler.Crawl, crawlBatchConcurrently,       *)
(* buildBatches, crawlWebpage and the two safe*Callback helpers.           *)
(*                                                                         *)
(* URLs are the canonical strings of normalized same-host URLs, numbered   *)
(* 1..NumUrls; URL 1 is the normalized seed.  The fetcher and the link     *)
(* extractor are the environment: the first fetch of a URL chooses its     *)
(* response (a fetch error, an extraction error, or the deduplicated       *)
(* sequence of links of the page) and the response is remembered in pages. *)
(*                                                                         *)
(* The linkextractor package (Normalize, Extract and the functions Extract *)
(* calls) is modelled on strings as sequences of characters, and checked   *)
(* under SpecNormalize and SpecExtract, whose initial states draw the      *)
(* arguments of one call.                                                  *)
(*                                                                         *)
(* Three more programs of the repository have a specification each:        *)
(* ExpBackoffRetryFetcher (SpecRetry), the recursive engine crawlInner     *)
(* (SpecInner, FairSpecInner) and Concurrent.Crawl (SpecConc).             *)
(***************************************************************************)
EXTENDS Integers, Sequences, FiniteSets, TLC

\* ------------------------------------------------------------------ bounds
MaxEdges == 3
MaxDepth == 3
MaxConc == 2
MaxHostLen == 8
MaxPathLen == 2
MaxAnchors == 2
MaxRetries == 4
MaxDelay == 2
MaxBatches == 3
MaxLimit == 2

\* Every URL but the seed is reached by a link.
NumUrls == MaxEdges + 1
Urls == 1..NumUrls
Seed == 1

\* ------------------------------------------------------------------ state
VARIABLES
    depth,            \* Crawl argument
    maxConcurrency,   \* Crawl argument
    linkFound,        \* bfc.linkFound: "nil" or "set"
    onError,          \* bfc.onError: "nil" or "set"
    ctxErr,           \* ctx.Err(): "nil", "Canceled" or "DeadlineExceeded"
    pc,               \* position of the goroutine that runs Crawl
    currentDepth,     \* loop variable of Crawl
    batches,          \* batches of the current layer not yet dispatched
    batchNo,          \* number of batches of the current layer dispatched
    linksAtDepth,     \* links accumulated for the next layer
    visitedLinks,     \* map[string]bool: "absent", "false" or "true"
    result,           \* the slice shared by the goroutines of one batch
    tasks,            \* the goroutines started by crawlBatchConcurrently
    crawledLinks,     \* first return value of Crawl
    err,              \* second return value of Crawl
    pages,            \* responses the fetcher and extractor have given
    fetchCount,       \* number of FetchWebpageContent calls per URL
    fetchLayer,       \* layer of the last fetch of a URL (-1: none)
    discLayer,        \* layer of the fetch that first extracted a URL
    extracted,        \* links extracted by successful fetches of the batch
    lfDispatched,     \* goroutines started by safeLinkFoundCallback per URL
    errDispatched,    \* goroutines started by safeCrawlingErrorCallback
    errArg,           \* the error handed to the error callback per URL
    cbPending,        \* number of callback goroutines that have not finished
    cbRecovered,      \* TRUE once a callback panic has been recovered
    crashed,          \* TRUE if a panic escaped a goroutine
    cancelPoint,      \* where Crawl was when the context was cancelled
    closed,           \* number of Close calls on the streams of a URL
    lxPc,             \* linkextractor call: "idle", "call" or "return"
    urlToNormalize,   \* argument of Normalize
    normalizedUrl,    \* return value of Normalize
    webpageURL,       \* argument of Extract: the URL of the page
    webpageContent,   \* argument of Extract: the page, as html.Parse sees it
    linksWithoutDuplicates, \* first return value of Extract
    extractErr,       \* second return value of Extract
    retry,            \* a call of ExpBackoffRetryFetcher.FetchWebpageContent
    conc,             \* a call of Concurrent.Crawl and its crawlerWorkers
    inner             \* a call of the recursive engine (crawlInner)

vars == <<depth, maxConcurrency, linkFound, onError, ctxErr, pc, currentDepth,
          batches, batchNo, linksAtDepth, visitedLinks, result, tasks,
          crawledLinks, err, pages, fetchCount, fetchLayer, discLayer,
          extracted, lfDispatched, errDispatched, errArg, cbPending, cbRecovered,
          crashed, cancelPoint, closed, lxPc, urlToNormalize, normalizedUrl,
          webpageURL, webpageContent, linksWithoutDuplicates, extractErr,
          retry, conc, inner>>

\* The variables of a call of the linkextractor package.
lxVars == <<lxPc, urlToNormalize, normalizedUrl, webpageURL, webpageContent,
            linksWithoutDuplicates, extractErr>>

\* The variables of a call of Crawl.
crawlVars == <<depth, maxConcurrency, linkFound, onError, ctxErr, pc,
               currentDepth, batches, batchNo, linksAtDepth, visitedLinks,
               result, tasks, crawledLinks, err, pages, fetchCount,
               fetchLayer, discLayer, extracted, lfDispatched, errDispatched,
               errArg, cbPending, cbRecovered, crashed, cancelPoint,
               closed>>

\* The variables of the other programs of the repository.
otherVars == <<retry, conc, inner>>

\* The value of retry, conc and inner while the program is not running.
Idle == [pc |-> "idle"]

\* ---------------------------------------------------------------- helpers
Range(s) == {s[i] : i \in 1..Len(s)}

Min(a, b) == IF a < b THEN a ELSE b

Unknown == [kind |-> "unknown", links |-> <<>>]

\* discLayer of a URL no fetch has extracted yet.
NotYet == 0 - 2

\* URLs are numbered in the order in which the crawl first extracts them
\* (the seed is 1): a link of a page is either a URL extracted before or the
\* next unused number.
Known(u) == discLayer[u] # NotYet

RECURSIVE SumLen(_)
SumLen(S) == IF S = {} THEN 0
             ELSE LET u == CHOOSE v \in S : TRUE
                  IN  Len(pages[u].links) + SumLen(S \ {u})

\* Number of links on the pages fetched so far.
EdgeCount == SumLen(Urls)

\* Sequences Extract can return, as extensions of s by at most n links:
\* removeDuplicates leaves no two equal canonical strings.  k URLs were
\* extracted before.
RECURSIVE LinkSeqs(_, _, _)
LinkSeqs(s, k, n) ==
    IF n = 0 THEN {s}
    ELSE LET fresh == k + Cardinality({i \in 1..Len(s) : s[i] > k}) + 1
             next == ((1..k) \ Range(s)) \cup (IF fresh <= NumUrls THEN {fresh} ELSE {})
         IN  {s} \cup UNION {LinkSeqs(Append(s, x), k, n - 1) : x \in next}

\* What crawlWebpage can return for a URL.  The fetcher is deterministic: a
\* URL that was fetched before answers as it did then.
ResponsesFor(u) ==
    IF pages[u] = Unknown
    THEN {[kind |-> "fetchErr", links |-> <<>>],
          [kind |-> "extractErr", links |-> <<>>]}
         \cup {[kind |-> "ok", links |-> s] :
                 s \in LinkSeqs(<<>>, Cardinality({v \in Urls : Known(v)}),
                                MaxEdges - EdgeCount)}
    ELSE {pages[u]}

\* ------------------------------------------------------------- validation
CrawlErrorSwapped(d, c) ==
    IF c <= 0 THEN "InvalidMaxConcurrency"
    ELSE IF d <= 0 THEN "InvalidDepth"
    ELSE "nil"

\* Crawl, the two argument checks.
CrawlError(d, c) ==
    IF d <= 0 THEN "InvalidDepth"
    ELSE IF c <= 0 THEN "InvalidMaxConcurrency"
    ELSE "nil"

ReturnErrorCtx(e) == IF e = "Canceled" THEN "Canceled" ELSE "nil"

\* Crawl, the error returned after the layer loop: nil, whatever ctx.Err() is.
ReturnError(e) == "nil"

LoopCondInclusive(cd, d) == cd <= d

\* Crawl, loop condition of the layer loop.
LoopCond(cd, d) == cd < d

CancelObservedAnyError(e) == e # "nil"

CancelObservedNever(e) == FALSE

\* Crawl, the graceful-cancel test before each batch.
CancelObserved(e) == e = "Canceled"

BatchEndOver(batchSize, n) == Min(batchSize + 1, n)

\* buildBatches, the length j - i of the next batch when n links are left.
BatchEnd(batchSize, n) == Min(batchSize, n)

\* buildBatches
RECURSIVE buildBatches(_, _)
buildBatches(urlsToCrawl, batchSize) ==
    IF Len(urlsToCrawl) = 0 THEN <<>>
    ELSE LET j == BatchEnd(batchSize, Len(urlsToCrawl))
         IN  <<SubSeq(urlsToCrawl, 1, j)>>
             \o buildBatches(SubSeq(urlsToCrawl, j + 1, Len(urlsToCrawl)), batchSize)

SkipLinkNever(v, u) == FALSE

\* crawlBatchConcurrently, the test that skips a link of the batch.
SkipLink(v, u) == v[u] = "true"

\* crawlBatchConcurrently, the launch loop: the links of the batch for which
\* a goroutine is started, in batch order, and the map after the loop.
RECURSIVE LaunchLoop(_, _, _)
LaunchLoop(batch, v, launched) ==
    IF batch = <<>> THEN [visited |-> v, launched |-> launched]
    ELSE LET u == Head(batch)
         IN  IF SkipLink(v, u)
             THEN LaunchLoop(Tail(batch), v, launched)
             ELSE LaunchLoop(Tail(batch), [v EXCEPT ![u] = "true"],
                             Append(launched, u))

FetchFailedFetchOnly(r) == r.kind = "fetchErr"

\* The goroutine of crawlBatchConcurrently, the test "err != nil" on what
\* crawlWebpage returned: the fetcher's error or the extractor's.
FetchFailed(r) == r.kind # "ok"

AfterErrorAbort(ts, i) == [j \in 1..Len(ts) |-> [ts[j] EXCEPT !.pc = "done"]]

\* The goroutine of crawlBatchConcurrently after an error: it returns, its
\* deferred wg.Done() runs, and no other goroutine is touched.
AfterError(ts, i) == [ts EXCEPT ![i].pc = "done"]

WaitDoneNoWait(ts) == TRUE

WaitDoneAndCallbacks(ts) ==
    /\ \A i \in 1..Len(ts) : ts[i].pc = "done"
    /\ cbPending = 0

\* wg.Wait(): every goroutine of the batch has called wg.Done().
WaitDone(ts) == \A i \in 1..Len(ts) : ts[i].pc = "done"

IsNewInverted(v, u) == v[u] # "absent"

\* Crawl, the test for a link the map does not hold yet.
IsNew(v, u) == v[u] = "absent"

\* Crawl, the loop that records the links found in a layer: the map after
\* the loop and the links for which safeLinkFoundCallback is called.
RECURSIVE MarkLoop(_, _, _)
MarkLoop(links, v, found) ==
    IF links = <<>> THEN [visited |-> v, found |-> found]
    ELSE LET u == Head(links)
         IN  IF IsNew(v, u)
             THEN MarkLoop(Tail(links), [v EXCEPT ![u] = "false"],
                           Append(found, u))
             ELSE MarkLoop(Tail(links), v, found)

\* safeLinkFoundCallback / safeCrawlingErrorCallback: a goroutine is started
\* unless the callback is nil.
Spawns(cb) == IF cb = "nil" THEN 0 ELSE 1

CallbackOutcomeNoRecover(panics) == IF panics THEN "crashed" ELSE "returned"

\* The goroutine of safeLinkFoundCallback and safeCrawlingErrorCallback: the
\* deferred recover() ends a panic of the callback.
CallbackOutcome(panics) == IF panics THEN "recovered" ELSE "returned"

\* safeCrawlingErrorCallback: the goroutine calls errorCallback(l, e) with
\* the error crawlWebpage returned.
ErrorArg(cb, r, old) == IF cb = "nil" THEN old ELSE r.kind

DeferredCloseOnSuccess(r) == IF r.kind = "ok" THEN 1 ELSE 0

\* crawlWebpage: the deferred Close runs once when the fetcher returned a
\* stream, whatever Extract returns, and not at all when the fetch failed.
DeferredClose(r) == IF r.kind = "fetchErr" THEN 0 ELSE 1

VisitedAfterFetchDelete(v, u, r) ==
    IF r.kind # "ok" THEN [v EXCEPT ![u] = "absent"] ELSE v

VisitedAfterFetchDrop(v, u, r) == [v EXCEPT ![u] = "absent"]

\* The goroutine of crawlBatchConcurrently does not touch the map.
VisitedAfterFetch(v, u, r) == v

CountIn(s, u) == Cardinality({i \in 1..Len(s) : s[i] = u})

\* cancelPoint while the context is not cancelled.
NoCancel == [pc |-> "none", before |-> 0 - 1]

\* The position of Crawl: its pc and the layer that has not begun (no batch
\* of it was dispatched and every batch of the layer before it was joined),
\* -1 inside a layer.
CancelPointNow ==
    [pc |-> pc,
     before |-> IF pc = "start" THEN 0
                ELSE IF pc = "batch" /\ batchNo = 0 THEN currentDepth
                ELSE IF pc = "batch" /\ batches = <<>> THEN currentDepth + 1
                ELSE 0 - 1]

\* ------------------------------------------------------- linkextractor
\* A string is a sequence of characters; a url.URL is a record of the three
\* fields the package reads and writes, Scheme being one token.
NoUrl == [Scheme |-> "", Host |-> <<>>, Path |-> <<>>]

\* The literal "www." of Normalize.
Www == <<"w", "w", "w", ".">>

\* strings.HasPrefix(s, prefix)
HasPrefix(s, prefix) ==
    Len(s) >= Len(prefix) /\ SubSeq(s, 1, Len(prefix)) = prefix

\* strings.Replace(s, old, "", -1): every non-overlapping occurrence of old,
\* found from left to right, is removed.
RECURSIVE Replace(_, _)
Replace(s, old) ==
    IF Len(s) < Len(old) THEN s
    ELSE IF HasPrefix(s, old)
         THEN Replace(SubSeq(s, Len(old) + 1, Len(s)), old)
         ELSE <<Head(s)>> \o Replace(Tail(s), old)

\* strings.TrimRight(s, cutset) for a cutset of one character.
RECURSIVE TrimRight(_, _)
TrimRight(s, c) ==
    IF s # <<>> /\ s[Len(s)] = c
    THEN TrimRight(SubSeq(s, 1, Len(s) - 1), c)
    ELSE s

Normalize(u) ==
    [Scheme |-> u.Scheme,
     Host |-> Replace(u.Host, Www),
     Path |-> TrimRight(u.Path, "/")]

\* url.URL.String() of a URL with a scheme, a host and a path only: the
\* scheme and ":", then "//" unless both host and path or both scheme and
\* host are empty, the host, and "/" between a host and a path that does
\* not begin with one.
String(u) ==
    (IF u.Scheme # "" THEN <<u.Scheme, ":">> ELSE <<>>)
    \o (IF (u.Scheme # "" \/ u.Host # <<>>) /\ (u.Host # <<>> \/ u.Path # <<>>)
        THEN <<"/", "/">> ELSE <<>>)
    \o u.Host
    \o (IF u.Host # <<>> /\ u.Path # <<>> /\ u.Path[1] # "/"
        THEN <<"/">> ELSE <<>>)
    \o u.Path

handleRelativeLinkBoth(baseLink, relativeLink) ==
    IF relativeLink.Host = <<>> /\ relativeLink.Scheme = ""
    THEN [Scheme |-> baseLink.Scheme, Host |-> baseLink.Host,
          Path |-> relativeLink.Path]
    ELSE relativeLink

handleRelativeLink(baseLink, relativeLink) ==
    IF relativeLink.Host = <<>> \/ relativeLink.Scheme = ""
    THEN [Scheme |-> baseLink.Scheme, Host |-> baseLink.Host,
          Path |-> relativeLink.Path]
    ELSE relativeLink

domainMatchesAny(pageURL, hrefValue) == TRUE

domainMatches(pageURL, hrefValue) ==
    pageURL.Host = hrefValue.Host \/ hrefValue.Host = <<>>

\* An href attribute that url.Parse rejects.
BadHref == [Scheme |-> "error", Host |-> <<>>, Path |-> <<>>]

\* The walk over the anchors of the parsed document, in document order: an
\* href that does not parse is skipped, the others are normalized, resolved
\* against the page and kept when their host matches.
RECURSIVE searchDomainMatchingLinks(_, _)
searchDomainMatchingLinks(pageURL, hrefs) ==
    IF hrefs = <<>> THEN <<>>
    ELSE LET hrefUrl == Head(hrefs)
             normalizedLink == handleRelativeLink(pageURL, Normalize(hrefUrl))
             rest == searchDomainMatchingLinks(pageURL, Tail(hrefs))
         IN  IF hrefUrl = BadHref THEN rest
             ELSE IF domainMatches(pageURL, normalizedLink)
                  THEN <<normalizedLink>> \o rest
                  ELSE rest

removeDuplicatesNone(ls) == ls

\* The loop of removeDuplicates: seen is the key set of uniqueMap.
RECURSIVE AppendUnique(_, _)
AppendUnique(ls, seen) ==
    IF ls = <<>> THEN <<>>
    ELSE IF String(Head(ls)) \in seen
         THEN AppendUnique(Tail(ls), seen)
         ELSE <<Head(ls)>> \o AppendUnique(Tail(ls), seen \cup {String(Head(ls))})

removeDuplicates(ls) == AppendUnique(ls, {})

\* Extract: a page html.Parse cannot read gives an error, any other page the
\* links of its anchors without duplicates.
Extract(pageURL, content) ==
    IF content.unreadable
    THEN [links |-> <<>>, err |-> "parseErr"]
    ELSE [links |-> removeDuplicates(
                        searchDomainMatchingLinks(pageURL, content.hrefs)),
          err |-> "nil"]

\* No call of the linkextractor package is modelled.
LxIdle ==
    /\ lxPc = "idle"
    /\ urlToNormalize = NoUrl
    /\ normalizedUrl = NoUrl
    /\ webpageURL = NoUrl
    /\ webpageContent = [unreadable |-> FALSE, hrefs |-> <<>>]
    /\ linksWithoutDuplicates = <<>>
    /\ extractErr = "none"

\* ------------------------------------------------------------------- Init
Init ==
    /\ depth \in -1..MaxDepth
    /\ maxConcurrency \in -1..MaxConc
    /\ linkFound \in {"nil", "set"}
    /\ onError \in {"nil", "set"}
    /\ ctxErr \in {"nil", "Canceled", "DeadlineExceeded"}
    /\ pc = "start"
    /\ currentDepth = 0
    /\ batches = <<>>
    /\ batchNo = 0
    /\ linksAtDepth = <<>>
    /\ visitedLinks = [u \in Urls |-> "absent"]
    /\ result = <<>>
    /\ tasks = <<>>
    /\ crawledLinks = {}
    /\ err = "none"
    /\ pages = [u \in Urls |-> Unknown]
    /\ fetchCount = [u \in Urls |-> 0]
    /\ fetchLayer = [u \in Urls |-> -1]
    /\ discLayer = [u \in Urls |-> IF u = Seed THEN -1 ELSE NotYet]
    /\ extracted = {}
    /\ lfDispatched = [u \in Urls |-> 0]
    /\ errDispatched = [u \in Urls |-> 0]
    /\ errArg = [u \in Urls |-> "none"]
    /\ cbPending = 0
    /\ cbRecovered = FALSE
    /\ crashed = FALSE
    /\ cancelPoint = IF ctxErr = "Canceled"
                     THEN [pc |-> "start", before |-> 0]
                     ELSE NoCancel
    /\ closed = [u \in Urls |-> 0]
    /\ LxIdle
    /\ retry = Idle
    /\ conc = Idle
    /\ inner = Idle

\* ---------------------------------------------------------------- actions
\* Crawl up to the first iteration of the layer loop: the argument checks,
\* the empty map and the frontier holding the normalized seed.
Start ==
    /\ pc = "start"
    /\ ~crashed
    /\ IF CrawlError(depth, maxConcurrency) # "nil"
       THEN /\ pc' = "done"
            /\ err' = CrawlError(depth, maxConcurrency)
            /\ crawledLinks' = {}
            /\ UNCHANGED batches
       ELSE /\ pc' = "batch"
            /\ batches' = buildBatches(<<Seed>>, maxConcurrency)
            /\ UNCHANGED <<err, crawledLinks>>
    /\ UNCHANGED <<depth, maxConcurrency, linkFound, onError, ctxErr,
                   currentDepth, batchNo, linksAtDepth, visitedLinks, result,
                   tasks, pages, fetchCount, fetchLayer, discLayer, extracted,
                   lfDispatched, errDispatched, errArg, cbPending, cbRecovered,
                   crashed, cancelPoint>>
    /\ UNCHANGED <<closed, lxVars, otherVars>>

\* Crawl, the break out of the batch loop when the context is cancelled.
BreakBatches ==
    /\ pc = "batch"
    /\ ~crashed
    /\ batches # <<>>
    /\ CancelObserved(ctxErr)
    /\ batches' = <<>>
    /\ UNCHANGED <<depth, maxConcurrency, linkFound, onError, ctxErr, pc,
                   currentDepth, batchNo, linksAtDepth, visitedLinks, result,
                   tasks, crawledLinks, err, pages, fetchCount, fetchLayer,
                   discLayer, extracted, lfDispatched, errDispatched, errArg,
                   cbPending, cbRecovered, crashed,
                   cancelPoint>>
    /\ UNCHANGED <<closed, lxVars, otherVars>>

NewTask(u) == [link |-> u, pc |-> "fetch", old |-> <<>>, links |-> <<>>,
               layer |-> currentDepth, batch |-> batchNo + 1]

\* crawlBatchConcurrently up to wg.Wait(): one goroutine per link of the
\* batch that the map does not hold as true.  The goroutines touch neither
\* the map nor the batch, so the launch loop is one step.
DispatchBatch ==
    /\ pc = "batch"
    /\ ~crashed
    /\ batches # <<>>
    /\ ~CancelObserved(ctxErr)
    /\ LET l == LaunchLoop(Head(batches), visitedLinks, <<>>)
       IN  /\ visitedLinks' = l.visited
           /\ tasks' = SelectSeq(tasks, LAMBDA t : t.pc # "done")
                       \o [i \in 1..Len(l.launched) |-> NewTask(l.launched[i])]
    /\ result' = <<>>
    /\ extracted' = {}
    /\ batches' = Tail(batches)
    /\ batchNo' = batchNo + 1
    /\ pc' = "wait"
    /\ UNCHANGED <<depth, maxConcurrency, linkFound, onError, ctxErr,
                   currentDepth, linksAtDepth, crawledLinks, err, pages,
                   fetchCount, fetchLayer, discLayer, lfDispatched,
                   errDispatched, errArg, cbPending, cbRecovered, crashed,
                   cancelPoint>>
    /\ UNCHANGED <<closed, lxVars, otherVars>>

\* The goroutine of crawlBatchConcurrently: crawlWebpage returns.  On an
\* error the error callback is dispatched and the goroutine ends; otherwise
\* append reads the shared slice.  No lock guards the slice: the read and
\* the write of "result = append(result, links...)" are two steps, and a
\* goroutine of the same batch may write between them.
TaskFetch(i) ==
    /\ ~crashed
    /\ i \in 1..Len(tasks)
    /\ tasks[i].pc = "fetch"
    /\ LET t == tasks[i]
           u == t.link
       IN  \E r \in ResponsesFor(u) :
             /\ pages' = [pages EXCEPT ![u] = r]
             /\ fetchCount' = [fetchCount EXCEPT ![u] = @ + 1]
             /\ fetchLayer' = [fetchLayer EXCEPT ![u] = t.layer]
             /\ closed' = [closed EXCEPT ![u] = @ + DeferredClose(r)]
             /\ visitedLinks' = VisitedAfterFetch(visitedLinks, u, r)
             /\ IF ~FetchFailed(r)
                THEN /\ tasks' = [tasks EXCEPT ![i].pc = "append",
                                               ![i].old = result,
                                               ![i].links = r.links]
                     /\ extracted' = extracted \cup Range(r.links)
                     /\ discLayer' = [v \in Urls |->
                                        IF v \in Range(r.links) /\ discLayer[v] = NotYet
                                        THEN t.layer ELSE discLayer[v]]
                     /\ UNCHANGED <<errDispatched, errArg, cbPending>>
                ELSE /\ tasks' = AfterError(tasks, i)
                     /\ errDispatched' = [errDispatched EXCEPT ![u] = @ + Spawns(onError)]
                     /\ errArg' = [errArg EXCEPT ![u] = ErrorArg(onError, r, @)]
                     /\ cbPending' = cbPending + Spawns(onError)
                     /\ UNCHANGED <<extracted, discLayer>>
    /\ UNCHANGED <<depth, maxConcurrency, linkFound, onError, ctxErr, pc,
                   currentDepth, batches, batchNo, linksAtDepth,
                   result, crawledLinks, err, lfDispatched, cbRecovered,
                   crashed, cancelPoint>>
    /\ UNCHANGED <<lxVars, otherVars>>

\* The goroutine of crawlBatchConcurrently: append writes the shared slice
\* (the slice it read, extended by its links) and the goroutine ends.
TaskAppend(i) ==
    /\ ~crashed
    /\ i \in 1..Len(tasks)
    /\ tasks[i].pc = "append"
    /\ result' = tasks[i].old \o tasks[i].links
    /\ tasks' = [tasks EXCEPT ![i].pc = "done", ![i].old = <<>>, ![i].links = <<>>]
    /\ UNCHANGED <<depth, maxConcurrency, linkFound, onError, ctxErr, pc,
                   currentDepth, batches, batchNo, linksAtDepth, visitedLinks,
                   crawledLinks, err, pages, fetchCount, fetchLayer, discLayer,
                   extracted, lfDispatched, errDispatched, errArg, cbPending,
                   cbRecovered, crashed, cancelPoint>>
    /\ UNCHANGED <<closed, lxVars, otherVars>>

\* crawlBatchConcurrently returns from wg.Wait() and Crawl appends the
\* returned slice to linksAtDepth.
JoinBatch ==
    /\ pc = "wait"
    /\ ~crashed
    /\ WaitDone(tasks)
    /\ linksAtDepth' = linksAtDepth \o result
    /\ tasks' = SelectSeq(tasks, LAMBDA t : t.pc # "done")
    /\ pc' = "batch"
    /\ UNCHANGED <<depth, maxConcurrency, linkFound, onError, ctxErr,
                   currentDepth, batches, batchNo, visitedLinks, result,
                   crawledLinks, err, pages, fetchCount, fetchLayer, discLayer,
                   extracted, lfDispatched, errDispatched, errArg, cbPending,
                   cbRecovered, crashed, cancelPoint>>
    /\ UNCHANGED <<closed, lxVars, otherVars>>

\* Crawl, the end of one iteration of the layer loop: the links found in
\* the layer enter the map as false, each with a linkFound callback.  The
\* next iteration starts with their batches; after the last iteration Crawl
\* returns the keys of the map.
EndLayer ==
    /\ pc = "batch"
    /\ ~crashed
    /\ batches = <<>>
    /\ LET m == MarkLoop(linksAtDepth, visitedLinks, <<>>)
       IN  /\ visitedLinks' = m.visited
           /\ lfDispatched' = [u \in Urls |->
                                 lfDispatched[u] + Spawns(linkFound) * CountIn(m.found, u)]
           /\ cbPending' = cbPending + Spawns(linkFound) * Len(m.found)
           /\ IF LoopCond(currentDepth + 1, depth)
              THEN /\ batches' = buildBatches(linksAtDepth, maxConcurrency)
                   /\ linksAtDepth' = <<>>
                   /\ pc' = "batch"
                   /\ UNCHANGED <<crawledLinks, err>>
              ELSE /\ crawledLinks' = {u \in Urls : m.visited[u] # "absent"}
                   /\ err' = ReturnError(ctxErr)
                   /\ pc' = "done"
                   /\ UNCHANGED <<batches, linksAtDepth>>
    /\ currentDepth' = currentDepth + 1
    /\ batchNo' = 0
    /\ UNCHANGED <<depth, maxConcurrency, linkFound, onError, ctxErr, result,
                   tasks, pages, fetchCount, fetchLayer, discLayer, extracted,
                   errDispatched, errArg, cbRecovered, crashed, cancelPoint>>
    /\ UNCHANGED <<closed, lxVars, otherVars>>

\* The caller cancels the context.
Cancel ==
    /\ ctxErr = "nil"
    /\ pc # "done"
    /\ ~crashed
    /\ ctxErr' = "Canceled"
    /\ cancelPoint' = CancelPointNow
    /\ UNCHANGED <<depth, maxConcurrency, linkFound, onError, pc, currentDepth,
                   batches, batchNo, linksAtDepth, visitedLinks, result, tasks,
                   crawledLinks, err, pages, fetchCount, fetchLayer, discLayer,
                   extracted, lfDispatched, errDispatched, errArg, cbPending,
                   cbRecovered, crashed>>
    /\ UNCHANGED <<closed, lxVars, otherVars>>

\* The deadline of the context expires.
DeadlineExpire ==
    /\ ctxErr = "nil"
    /\ pc # "done"
    /\ ~crashed
    /\ ctxErr' = "DeadlineExceeded"
    /\ UNCHANGED <<depth, maxConcurrency, linkFound, onError, pc, currentDepth,
                   batches, batchNo, linksAtDepth, visitedLinks, result, tasks,
                   crawledLinks, err, pages, fetchCount, fetchLayer, discLayer,
                   extracted, lfDispatched, errDispatched, errArg, cbPending,
                   cbRecovered, crashed, cancelPoint>>
    /\ UNCHANGED <<closed, lxVars, otherVars>>

\* A goroutine started by safeLinkFoundCallback or by
\* safeCrawlingErrorCallback runs its callback, which returns or panics.
CallbackRun ==
    /\ ~crashed
    /\ cbPending > 0
    /\ \E panics \in BOOLEAN :
         /\ cbRecovered' = (cbRecovered \/ CallbackOutcome(panics) = "recovered")
         /\ crashed' = (CallbackOutcome(panics) = "crashed")
    /\ cbPending' = cbPending - 1
    /\ UNCHANGED <<depth, maxConcurrency, linkFound, onError, ctxErr, pc,
                   currentDepth, batches, batchNo, linksAtDepth, visitedLinks,
                   result, tasks, crawledLinks, err, pages, fetchCount,
                   fetchLayer, discLayer, extracted, lfDispatched,
                   errDispatched, errArg, cancelPoint>>
    /\ UNCHANGED <<closed, lxVars, otherVars>>

Next ==
    \/ Start
    \/ BreakBatches
    \/ DispatchBatch
    \/ \E i \in 1..Len(tasks) : TaskFetch(i)
    \/ \E i \in 1..Len(tasks) : TaskAppend(i)
    \/ JoinBatch
    \/ EndLayer
    \/ Cancel
    \/ DeadlineExpire
    \/ CallbackRun

Spec == Init /\ [][Next]_vars

\* The Go scheduler runs every runnable goroutine, and a call of the fetcher
\* returns: the steps of Crawl and of the goroutines of a batch are taken
\* when they can be.  Nothing makes a callback return, nor the caller
\* cancel.
FairSpec ==
    /\ Spec
    /\ WF_vars(Start)
    /\ WF_vars(BreakBatches)
    /\ WF_vars(DispatchBatch)
    /\ \A i \in 1..MaxConc : WF_vars(TaskFetch(i)) /\ WF_vars(TaskAppend(i))
    /\ WF_vars(JoinBatch)
    /\ WF_vars(EndLayer)

\* ------------------------------------------- calls of the linkextractor
\* Crawl is not running.
CrawlIdle ==
    /\ depth = 1
    /\ maxConcurrency = 1
    /\ linkFound = "nil"
    /\ onError = "nil"
    /\ ctxErr = "nil"
    /\ pc = "start"
    /\ currentDepth = 0
    /\ batches = <<>>
    /\ batchNo = 0
    /\ linksAtDepth = <<>>
    /\ visitedLinks = [u \in Urls |-> "absent"]
    /\ result = <<>>
    /\ tasks = <<>>
    /\ crawledLinks = {}
    /\ err = "none"
    /\ pages = [u \in Urls |-> Unknown]
    /\ fetchCount = [u \in Urls |-> 0]
    /\ fetchLayer = [u \in Urls |-> -1]
    /\ discLayer = [u \in Urls |-> IF u = Seed THEN -1 ELSE NotYet]
    /\ extracted = {}
    /\ lfDispatched = [u \in Urls |-> 0]
    /\ errDispatched = [u \in Urls |-> 0]
    /\ errArg = [u \in Urls |-> "none"]
    /\ cbPending = 0
    /\ cbRecovered = FALSE
    /\ crashed = FALSE
    /\ cancelPoint = NoCancel
    /\ closed = [u \in Urls |-> 0]

\* The sequences of at most n elements of S.
SeqsUpTo(S, n) == UNION {[1..k -> S] : k \in 0..n}

HostChars == {"w", ".", "t"}
PathChars == {"/", "a"}

\* The URLs Normalize is called with.
NormalizeArgs ==
    [Scheme : {"", "https"},
     Host : SeqsUpTo(HostChars, MaxHostLen),
     Path : SeqsUpTo(PathChars, MaxPathLen)]

InitNormalize ==
    /\ CrawlIdle
    /\ lxPc = "Normalize"
    /\ urlToNormalize \in NormalizeArgs
    /\ normalizedUrl = NoUrl
    /\ webpageURL = NoUrl
    /\ webpageContent = [unreadable |-> FALSE, hrefs |-> <<>>]
    /\ linksWithoutDuplicates = <<>>
    /\ extractErr = "none"
    /\ retry = Idle
    /\ conc = Idle
    /\ inner = Idle

NormalizeCall ==
    /\ lxPc = "Normalize"
    /\ normalizedUrl' = Normalize(urlToNormalize)
    /\ lxPc' = "normalized"
    /\ UNCHANGED <<urlToNormalize, webpageURL, webpageContent,
                   linksWithoutDuplicates, extractErr>>
    /\ UNCHANGED <<crawlVars, otherVars>>

NextNormalize == NormalizeCall

SpecNormalize == InitNormalize /\ [][NextNormalize]_vars

\* The hosts of the page and of its anchors: the page's own, the same with
\* "www." before it, another one, and none.
TestHost == <<"t">>
OtherHost == <<"o">>
HrefHosts == {<<>>, TestHost, Www \o TestHost, OtherHost}

HrefPaths == {<<>>, <<"/">>, <<"/", "a">>, <<"/", "a", "/">>, <<"a">>}

\* What url.Parse returns for an href: a path that does not begin with "/"
\* comes only without scheme and host (after a host the path is empty or
\* begins with "/", and after a scheme alone the rest is opaque).
Parsed(h) ==
    (h.Path # <<>> /\ h.Path[1] # "/") => (h.Scheme = "" /\ h.Host = <<>>)

Hrefs ==
    {h \in [Scheme : {"", "https", "mailto"}, Host : HrefHosts, Path : HrefPaths] :
        Parsed(h)} \cup {BadHref}

\* The pages Extract is called with: one html.Parse cannot read, and the
\* pages with at most MaxAnchors anchors.
Contents ==
    {[unreadable |-> TRUE, hrefs |-> <<>>]}
    \cup {[unreadable |-> FALSE, hrefs |-> d] : d \in SeqsUpTo(Hrefs, MaxAnchors)}

InitExtract ==
    /\ CrawlIdle
    /\ lxPc = "Extract"
    /\ urlToNormalize = NoUrl
    /\ normalizedUrl = NoUrl
    /\ webpageURL \in [Scheme : {"https"},
                       Host : {TestHost, Www \o TestHost},
                       Path : {<<>>, <<"/", "a">>}]
    /\ webpageContent \in Contents
    /\ linksWithoutDuplicates = <<>>
    /\ extractErr = "none"
    /\ retry = Idle
    /\ conc = Idle
    /\ inner = Idle

ExtractCall ==
    /\ lxPc = "Extract"
    /\ linksWithoutDuplicates' = Extract(webpageURL, webpageContent).links
    /\ extractErr' = Extract(webpageURL, webpageContent).err
    /\ lxPc' = "extracted"
    /\ UNCHANGED <<urlToNormalize, normalizedUrl, webpageURL, webpageContent>>
    /\ UNCHANGED <<crawlVars, otherVars>>

NextExtract == ExtractCall

SpecExtract == InitExtract /\ [][NextExtract]_vars

\* ------------------------------------------ ExpBackoffRetryFetcher
\* The errors the inner fetcher returns.
FetchErrors == {"e1", "e2"}

\* i ^ 2 of Go: the exclusive or of i and 2 flips the bit of weight 2.
Xor2(i) == IF (i \div 2) % 2 = 1 THEN i - 2 ELSE i + 2

\* The argument of time.Sleep after the failed attempt i.
Delay(i, delayBetweenRetries) == Xor2(i) * delayBetweenRetries

RetryLoopCondExclusive(i, numberOfRetries) == i < numberOfRetries

\* The condition of the retry loop.
RetryLoopCond(i, numberOfRetries) == i <= numberOfRetries

\* FetchWebpageContent is called on a fetcher built by
\* NewExpBackoffRetryFetcher: attempts lists what the inner fetcher has
\* returned and slept the arguments of time.Sleep.
InitRetry ==
    /\ CrawlIdle
    /\ LxIdle
    /\ conc = Idle
    /\ inner = Idle
    /\ \E n \in -1..MaxRetries, d \in 1..MaxDelay :
          retry = [pc |-> "loop",
                   numberOfRetries |-> n,
                   delayBetweenRetries |-> d,
                   i |-> 1,
                   lastError |-> "nil",
                   attempts |-> <<>>,
                   slept |-> <<>>,
                   webpageContent |-> "",
                   err |-> "none"]

\* One iteration of the loop up to the return or to time.Sleep: the inner
\* fetcher returns the page or an error.
RetryAttempt ==
    /\ retry.pc = "loop"
    /\ RetryLoopCond(retry.i, retry.numberOfRetries)
    /\ \E r \in {"ok"} \cup FetchErrors :
          retry' = IF r = "ok"
                   THEN [retry EXCEPT !.attempts = Append(@, r),
                                      !.webpageContent = "page",
                                      !.err = "nil",
                                      !.pc = "done"]
                   ELSE [retry EXCEPT !.attempts = Append(@, r),
                                      !.lastError = r,
                                      !.slept = Append(@, Delay(retry.i,
                                                     retry.delayBetweenRetries)),
                                      !.pc = "sleep"]
    /\ UNCHANGED <<crawlVars, lxVars, conc, inner>>

\* time.Sleep returns and the loop continues.
RetryWake ==
    /\ retry.pc = "sleep"
    /\ retry' = [retry EXCEPT !.i = @ + 1, !.pc = "loop"]
    /\ UNCHANGED <<crawlVars, lxVars, conc, inner>>

\* The loop ends without a success.
RetryGiveUp ==
    /\ retry.pc = "loop"
    /\ ~RetryLoopCond(retry.i, retry.numberOfRetries)
    /\ retry' = [retry EXCEPT !.webpageContent = "",
                              !.err = retry.lastError,
                              !.pc = "done"]
    /\ UNCHANGED <<crawlVars, lxVars, conc, inner>>

NextRetry == RetryAttempt \/ RetryWake \/ RetryGiveUp

SpecRetry == InitRetry /\ [][NextRetry]_vars

\* ------------------------------- the recursive engine (crawlInner)
\* pkg/crawler/crawler.go, BreadthFirstCrawler.Crawl with crawlInner: the
\* recursive call is the last statement of crawlInner, so a call replaces
\* the parameters of the one that makes it.  The slice buildBatches builds
\* is kept up to MaxBatches batches; longer ones are not told apart.

\* What a fetch followed by Extract returns: an error, or the links of the
\* page without duplicates.
InnerResponses ==
    {[kind |-> "err", links |-> <<>>]}
    \cup {[kind |-> "ok", links |-> l] :
             l \in {q \in SeqsUpTo(Urls, MaxAnchors) :
                       \A a, b \in 1..Len(q) : a # b => q[a] # q[b]}}

\* The batch size crawlInner hands to its recursive call.
RecursiveBatchSize(batchSize) == 0

\* The loop of the goroutine launches of one batch: LoadOrStore, and a
\* goroutine for each link that was not in the map.
RECURSIVE InnerLaunchLoop(_, _, _)
InnerLaunchLoop(batch, visited, launched) ==
    IF batch = <<>> THEN [visited |-> visited, launched |-> launched]
    ELSE IF Head(batch) \in visited
         THEN InnerLaunchLoop(Tail(batch), visited, launched)
         ELSE InnerLaunchLoop(Tail(batch), visited \cup {Head(batch)},
                              Append(launched, Head(batch)))

InitInner ==
    /\ CrawlIdle
    /\ LxIdle
    /\ retry = Idle
    /\ conc = Idle
    /\ \E d \in -1..MaxDepth, c \in -1..MaxConc, e \in {"nil", "Canceled"} :
          inner = [pc |-> "build",
                   args |-> [depth |-> d, maxConcurrency |-> c],
                   ctxErr |-> e,
                   treeNodes |-> <<Seed>>,
                   depth |-> d,
                   maxConcurrency |-> c,
                   i |-> 0,
                   batches |-> <<>>,
                   visitedLinks |-> {},
                   totalReferencedLinksAtDepth |-> <<>>,
                   tasks |-> <<>>,
                   crawledLinks |-> {}]

\* One iteration of the loop of buildBatches; a batch size below zero makes
\* the slice expression panic.
InnerBuildStep ==
    /\ inner.pc = "build"
    /\ inner.i < Len(inner.treeNodes)
    /\ LET j == Min(inner.i + inner.maxConcurrency, Len(inner.treeNodes))
       IN  inner' =
               IF j < inner.i
               THEN [inner EXCEPT !.pc = "panic"]
               ELSE [inner EXCEPT
                       !.batches = IF Len(@) < MaxBatches
                                   THEN Append(@, SubSeq(inner.treeNodes,
                                                         inner.i + 1, j))
                                   ELSE @,
                       !.i = @ + inner.maxConcurrency]
    /\ UNCHANGED <<crawlVars, lxVars, retry, conc>>

\* buildBatches returns.
InnerBuilt ==
    /\ inner.pc = "build"
    /\ inner.i >= Len(inner.treeNodes)
    /\ inner' = [inner EXCEPT !.pc = "batch"]
    /\ UNCHANGED <<crawlVars, lxVars, retry, conc>>

\* The next batch: crawlInner returns if the context is cancelled, and
\* otherwise starts the goroutines of the batch.
InnerDispatch ==
    /\ inner.pc = "batch"
    /\ inner.batches # <<>>
    /\ inner' =
          IF inner.ctxErr = "Canceled"
          THEN [inner EXCEPT !.pc = "done", !.crawledLinks = inner.visitedLinks]
          ELSE LET l == InnerLaunchLoop(Head(inner.batches),
                                        inner.visitedLinks, <<>>)
               IN  [inner EXCEPT
                      !.visitedLinks = l.visited,
                      !.tasks = [k \in 1..Len(l.launched) |->
                                    [link |-> l.launched[k], pc |-> "fetch",
                                     old |-> <<>>, links |-> <<>>]],
                      !.batches = Tail(@),
                      !.pc = "wait"]
    /\ UNCHANGED <<crawlVars, lxVars, retry, conc>>

\* A goroutine: crawlWebpage returns and append reads the shared slice.
InnerTaskFetch(k) ==
    /\ inner.pc = "wait"
    /\ k \in 1..Len(inner.tasks)
    /\ inner.tasks[k].pc = "fetch"
    /\ \E r \in InnerResponses :
          inner' = [inner EXCEPT
                      !.tasks[k].pc = "append",
                      !.tasks[k].old = inner.totalReferencedLinksAtDepth,
                      !.tasks[k].links = r.links]
    /\ UNCHANGED <<crawlVars, lxVars, retry, conc>>

\* A goroutine: append writes the shared slice, and wg.Done().
InnerTaskAppend(k) ==
    /\ inner.pc = "wait"
    /\ k \in 1..Len(inner.tasks)
    /\ inner.tasks[k].pc = "append"
    /\ inner' = [inner EXCEPT
                   !.totalReferencedLinksAtDepth =
                       inner.tasks[k].old \o inner.tasks[k].links,
                   !.tasks[k].pc = "done",
                   !.tasks[k].old = <<>>,
                   !.tasks[k].links = <<>>]
    /\ UNCHANGED <<crawlVars, lxVars, retry, conc>>

\* wg.Wait() returns.
InnerJoin ==
    /\ inner.pc = "wait"
    /\ \A k \in 1..Len(inner.tasks) : inner.tasks[k].pc = "done"
    /\ inner' = [inner EXCEPT !.tasks = <<>>, !.pc = "batch"]
    /\ UNCHANGED <<crawlVars, lxVars, retry, conc>>

\* After the last batch crawlInner calls itself for the links of the level,
\* or returns, and Crawl returns the keys of the map.
InnerRecurse ==
    /\ inner.pc = "batch"
    /\ inner.batches = <<>>
    /\ inner' =
          IF inner.depth - 1 > 0
          THEN [inner EXCEPT
                  !.treeNodes = inner.totalReferencedLinksAtDepth,
                  !.depth = @ - 1,
                  !.maxConcurrency = RecursiveBatchSize(@),
                  !.totalReferencedLinksAtDepth = <<>>,
                  !.i = 0,
                  !.pc = "build"]
          ELSE [inner EXCEPT !.pc = "done", !.crawledLinks = inner.visitedLinks]
    /\ UNCHANGED <<crawlVars, lxVars, retry, conc>>

\* The caller cancels the context.
InnerCancel ==
    /\ inner.pc \notin {"done", "panic"}
    /\ inner.ctxErr = "nil"
    /\ inner' = [inner EXCEPT !.ctxErr = "Canceled"]
    /\ UNCHANGED <<crawlVars, lxVars, retry, conc>>

NextInner ==
    \/ InnerBuildStep
    \/ InnerBuilt
    \/ InnerDispatch
    \/ \E k \in 1..MaxConc : InnerTaskFetch(k)
    \/ \E k \in 1..MaxConc : InnerTaskAppend(k)
    \/ InnerJoin
    \/ InnerRecurse
    \/ InnerCancel

SpecInner == InitInner /\ [][NextInner]_vars

\* The goroutine of Crawl and the goroutines of a batch run when they can,
\* and a fetch returns; nothing makes the caller cancel.
FairSpecInner ==
    /\ SpecInner
    /\ WF_vars(InnerBuildStep)
    /\ WF_vars(InnerBuilt)
    /\ WF_vars(InnerDispatch)
    /\ \A k \in 1..MaxConc : WF_vars(InnerTaskFetch(k)) /\ WF_vars(InnerTaskAppend(k))
    /\ WF_vars(InnerJoin)
    /\ WF_vars(InnerRecurse)

\* The number of links of the pages of pgs.
RECURSIVE SumLenOver(_, _)
SumLenOver(pgs, S) ==
    IF S = {} THEN 0
    ELSE LET u == CHOOSE x \in S : TRUE
         IN  Len(pgs[u].links) + SumLenOver(pgs, S \ {u})

SumLen0(pgs) == SumLenOver(pgs, DOMAIN pgs)

\* ------------------------------------------ Concurrent.Crawl
\* pkg/crawler/crawler.go, the crawler with one goroutine per link.  The
\* channels are unbuffered: a send and its receive are one step of the two
\* goroutines.  workers lists the crawlerWorker goroutines; ch is the index
\* of the worker that receives from a worker's finish channel, 0 for the
\* finishCh of Crawl.

\* The URLs of the site: the seed and two others.
ConcUrls == 1..3

\* What crawlWebpage returns for a URL it is asked for the first time: an
\* error, or the links of the page without duplicates, the site having at
\* most MaxEdges links; the same again at every later call.
ConcResponses(pgs, u) ==
    IF pgs[u].kind # "unknown" THEN {pgs[u]}
    ELSE {[kind |-> "err", links |-> <<>>]}
         \cup {[kind |-> "ok", links |-> l] :
                  l \in {q \in SeqsUpTo(ConcUrls, MaxAnchors) :
                            /\ \A a, b \in 1..Len(q) : a # b => q[a] # q[b]
                            /\ Len(q) + SumLen0(pgs) <= MaxEdges}}

\* The worker goroutines started for the links of a page.
Children(ls, limit, parent) ==
    [k \in 1..Len(ls) |->
        [link |-> ls[k], limit |-> limit - 1, ch |-> parent, pc |-> "start",
         waiting |-> 0]]

\* visitedLinksMap.Delete of a worker whose crawlWebpage failed.
DeleteOnError(visited, u) == visited \ {u}

InitConc ==
    /\ CrawlIdle
    /\ LxIdle
    /\ retry = Idle
    /\ inner = Idle
    /\ \E n \in -1..MaxLimit, c \in BOOLEAN :
          conc = [pc |-> "loop",
                  recursionLimit |-> n,
                  ctxDone |-> c,
                  preCancelled |-> c,
                  visitedLinksMap |-> {},
                  crawlingErrors |-> 0,
                  workers |-> <<[link |-> Seed, limit |-> n, ch |-> 0,
                                 pc |-> "start", waiting |-> 0]>>,
                  pages |-> [u \in ConcUrls |-> Unknown],
                  crawledLinks |-> {},
                  err |-> "none"]

\* crawlerWorker up to the call of crawlWebpage: LoadOrStore, and the check
\* of the recursion limit.
ConcWorkerStart(w) ==
    /\ w \in 1..Len(conc.workers)
    /\ conc.workers[w].pc = "start"
    /\ LET me == conc.workers[w]
       IN  conc' =
             IF me.link \in conc.visitedLinksMap
             THEN [conc EXCEPT !.workers[w].pc = "sendFinish"]
             ELSE [conc EXCEPT
                     !.visitedLinksMap = @ \cup {me.link},
                     !.workers[w].pc = IF me.limit <= 0 THEN "sendFinish"
                                       ELSE "fetch"]
    /\ UNCHANGED <<crawlVars, lxVars, retry, inner>>

\* crawlWebpage returns: on an error the worker deletes its key and goes to
\* send the error; otherwise it starts a worker per link and waits for
\* them.
ConcWorkerFetch(w) ==
    /\ w \in 1..Len(conc.workers)
    /\ conc.workers[w].pc = "fetch"
    /\ LET me == conc.workers[w]
       IN  \E r \in ConcResponses(conc.pages, me.link) :
             conc' =
               IF r.kind = "err"
               THEN [conc EXCEPT
                       !.pages[me.link] = r,
                       !.visitedLinksMap = DeleteOnError(@, me.link),
                       !.workers[w].pc = "sendErr"]
               ELSE [conc EXCEPT
                       !.pages[me.link] = r,
                       !.workers = [@ EXCEPT
                                      ![w].pc = IF r.links = <<>>
                                                THEN "sendFinish" ELSE "wait",
                                      ![w].waiting = Len(r.links)]
                                   \o Children(r.links, me.limit, w)]
    /\ UNCHANGED <<crawlVars, lxVars, retry, inner>>

\* The select of Crawl receives the error a worker sends on errorsCh.
ConcRecvError(w) ==
    /\ conc.pc = "loop"
    /\ w \in 1..Len(conc.workers)
    /\ conc.workers[w].pc = "sendErr"
    /\ conc' = [conc EXCEPT !.crawlingErrors = @ + 1,
                            !.workers[w].pc = "sendFinish"]
    /\ UNCHANGED <<crawlVars, lxVars, retry, inner>>

\* A worker's send on its finish channel is received: by the select of
\* Crawl, which leaves its loop, or by the worker that started it.
ConcRecvFinish(w) ==
    /\ w \in 1..Len(conc.workers)
    /\ conc.workers[w].pc = "sendFinish"
    /\ LET p == conc.workers[w].ch
       IN  IF p = 0
           THEN /\ conc.pc = "loop"
                /\ conc' = [conc EXCEPT !.pc = "range",
                                        !.workers[w].pc = "done"]
           ELSE /\ conc.workers[p].pc = "wait"
                /\ conc' = [conc EXCEPT
                              !.workers[w].pc = "done",
                              !.workers[p].waiting = @ - 1,
                              !.workers[p].pc = IF conc.workers[p].waiting = 1
                                                THEN "sendFinish" ELSE "wait"]
    /\ UNCHANGED <<crawlVars, lxVars, retry, inner>>

\* The select of Crawl receives from ctx.Done() and leaves the loop.
ConcCtxDone ==
    /\ conc.pc = "loop"
    /\ conc.ctxDone
    /\ conc' = [conc EXCEPT !.pc = "range"]
    /\ UNCHANGED <<crawlVars, lxVars, retry, inner>>

\* Crawl after the loop: the keys of the map, and an error if an error was
\* received.
ConcReturn ==
    /\ conc.pc = "range"
    /\ conc' = [conc EXCEPT
                  !.crawledLinks = conc.visitedLinksMap,
                  !.err = IF conc.crawlingErrors > 0 THEN "errors" ELSE "nil",
                  !.pc = "done"]
    /\ UNCHANGED <<crawlVars, lxVars, retry, inner>>

\* The caller cancels the context.
ConcCancel ==
    /\ conc.pc = "loop"
    /\ ~conc.ctxDone
    /\ conc' = [conc EXCEPT !.ctxDone = TRUE]
    /\ UNCHANGED <<crawlVars, lxVars, retry, inner>>

NextConc ==
    \/ \E w \in 1..Len(conc.workers) : ConcWorkerStart(w)
    \/ \E w \in 1..Len(conc.workers) : ConcWorkerFetch(w)
    \/ \E w \in 1..Len(conc.workers) : ConcRecvError(w)
    \/ \E w \in 1..Len(conc.workers) : ConcRecvFinish(w)
    \/ ConcCtxDone
    \/ ConcReturn
    \/ ConcCancel

SpecConc == InitConc /\ [][NextConc]_vars

TypeOK ==
    /\ pc \in {"start", "batch", "wait", "done"}
    /\ visitedLinks \in [Urls -> {"absent", "false", "true"}]
    /\ crawledLinks \subseteq Urls

\* ----------------------------------------------------------- definitions
\* used by the properties

ValidArgs == depth >= 1 /\ maxConcurrency >= 1

Outstanding == {i \in 1..Len(tasks) : tasks[i].pc = "fetch"}

Unfinished == {i \in 1..Len(tasks) : tasks[i].pc # "done"}

Fetched == {u \in Urls : fetchCount[u] > 0}

\* Links whose goroutine has been started and has not called the fetcher yet.
OutstandingLinks == {tasks[i].link : i \in Outstanding}

\* Hop distance of a URL the crawl has extracted: the seed is layer 0, a URL
\* first extracted by a fetch of layer n is of layer n + 1.
LayerOf(u) == discLayer[u] + 1

\* Number of URLs a callback goroutine was started for, both callbacks.
CallbacksDispatched ==
    Cardinality({u \in Urls : lfDispatched[u] > 0})
        + Cardinality({u \in Urls : errDispatched[u] > 0})

\* URLs whose fetch or extraction failed.
Failed == {u \in Urls : pages[u].kind \in {"fetchErr", "extractErr"}}

NoFailure == \A u \in Urls : pages[u].kind \in {"ok", "unknown"}

\* Links of the pages whose fetch and extraction succeeded.
LinksOf(u) == IF pages[u].kind = "ok" THEN Range(pages[u].links) ELSE {}

\* URLs at link distance <= n from the seed, through successfully fetched
\* pages.
RECURSIVE Within(_)
Within(n) ==
    IF n <= 0 THEN {Seed}
    ELSE LET W == Within(n - 1)
         IN  W \cup UNION {LinksOf(u) : u \in W}

\* Total number of FetchWebpageContent calls for the URLs of S.
RECURSIVE SumFetches(_)
SumFetches(S) ==
    IF S = {} THEN 0
    ELSE LET u == CHOOSE x \in S : TRUE
         IN  fetchCount[u] + SumFetches(S \ {u})

\* The link an href gives: Normalize, then handleRelativeLink.
Resolved(pageURL, h) == handleRelativeLink(pageURL, Normalize(h))

\* Two hrefs that differ at most by a "www." before the host and a "/" after
\* the path.
SameButWwwOrSlash(g, h) ==
    /\ g.Scheme = h.Scheme
    /\ \/ g.Host = h.Host
       \/ g.Host = Www \o h.Host
       \/ h.Host = Www \o g.Host
    /\ \/ g.Path = h.Path
       \/ g.Path = h.Path \o <<"/">>
       \/ h.Path = g.Path \o <<"/">>

\* ------------------------------------------------------------- properties

C2_AtMostDepthLayers ==
    \A u \in Fetched :
        /\ fetchLayer[u] < depth
        /\ discLayer[u] # NotYet
        /\ discLayer[u] < depth - 1

\* A crawl ended with a URL that the last layer extracted and nothing
\* fetched.
C2_Witness ==
    /\ pc = "done"
    /\ \E u \in crawledLinks : discLayer[u] = depth - 1 /\ fetchCount[u] = 0

\* C3: the returned result holds no URL at link distance greater than depth
\* from the seed.
C3_ResultWithinDepth ==
    (pc = "done" /\ err = "nil") => crawledLinks \subseteq Within(depth)

\* A result with a URL at distance exactly depth.
C3_Witness ==
    /\ pc = "done"
    /\ err = "nil"
    /\ \E u \in crawledLinks : u \notin Within(depth - 1)

C5_ExactlyWithinDepth ==
    (pc = "done" /\ ValidArgs /\ ctxErr # "Canceled" /\ NoFailure)
        => crawledLinks = Within(depth)

\* C6: at most maxConcurrency fetches are started and not yet completed.
C6_BoundedOutstanding ==
    ValidArgs => Cardinality(Outstanding) <= maxConcurrency

\* Two fetches are outstanding under maxConcurrency = 2.
C6_Witness ==
    /\ maxConcurrency = 2
    /\ Cardinality(Outstanding) = 2

\* C7: a goroutine that has not finished belongs to the batch being
\* waited for: no batch is dispatched and no layer is ended while a
\* goroutine of an earlier batch runs.
C7_OneBatchAtATime ==
    \A i \in Unfinished :
        /\ pc = "wait"
        /\ tasks[i].layer = currentDepth
        /\ tasks[i].batch = batchNo

\* A fetch of the second batch of a layer after the first is running.
C7_Witness ==
    \E i \in Outstanding : tasks[i].batch = 2 /\ tasks[i].layer >= 1

\* C8: when a batch is joined, the slice it returns holds every link
\* extracted by the successful fetches of the batch.
C8_NoLinkLost ==
    (pc = "wait" /\ WaitDone(tasks)) => extracted \subseteq Range(result)

\* C9: invalid arguments end Crawl with InvalidDepth (depth <= 0) or
\* InvalidMaxConcurrency (depth > 0, maxConcurrency <= 0), an empty result,
\* no fetch and no callback.
C9_ValidationErrors ==
    ~ValidArgs =>
        /\ pc \in {"start", "done"}
        /\ Fetched = {}
        /\ tasks = <<>>
        /\ cbPending = 0
        /\ \A u \in Urls : lfDispatched[u] = 0 /\ errDispatched[u] = 0
        /\ pc = "done" =>
              /\ crawledLinks = {}
              /\ err = IF depth <= 0 THEN "InvalidDepth" ELSE "InvalidMaxConcurrency"

\* Crawl returned with both arguments invalid.
C9_Witness ==
    /\ pc = "done"
    /\ depth <= 0
    /\ maxConcurrency <= 0
    /\ err = "InvalidDepth"

\* C10: with valid arguments Crawl returns a nil error.
C10_NilError ==
    (pc = "done" /\ ValidArgs) => err = "nil"

\* Crawl returned after a failed fetch, a recovered callback panic and a
\* cancellation.
C10_Witness ==
    /\ pc = "done"
    /\ ValidArgs
    /\ ctxErr = "Canceled"
    /\ cbRecovered
    /\ \E u \in Urls : pages[u].kind = "fetchErr"

\* C11: if the context is cancelled when Crawl is called with valid
\* arguments, no goroutine is started, no fetch is made, and Crawl returns an
\* empty result and a nil error, whatever the depth.
C11_PreCancelledEmpty ==
    (cancelPoint.pc = "start" /\ ValidArgs) =>
        /\ Fetched = {}
        /\ tasks = <<>>
        /\ pc = "done" => (crawledLinks = {} /\ err = "nil")

\* Crawl returned from the largest depth under a context cancelled before
\* the call.
C11_Witness ==
    /\ pc = "done"
    /\ cancelPoint.pc = "start"
    /\ ValidArgs
    /\ depth = MaxDepth
    /\ currentDepth = MaxDepth

C14_ReturnsAfterTasks ==
    pc = "done" =>
        /\ Unfinished = {}
        /\ \A u \in Urls : visitedLinks[u] = "true" => fetchCount[u] = 1

\* Crawl returned after a cancellation that arrived while a batch was in
\* flight, in a crawl that ran two goroutines at a time.
C14_Witness ==
    /\ pc = "done"
    /\ cancelPoint.pc = "wait"
    /\ maxConcurrency = 2
    /\ Cardinality(Fetched) >= 3

\* C15: a URL whose fetch or extraction failed stays in the map as visited,
\* is fetched once and no more, and is part of the returned result.
C15_FailedStaysVisited ==
    \A u \in Failed :
        /\ visitedLinks[u] = "true"
        /\ fetchCount[u] = 1
        /\ (pc = "done" /\ ValidArgs) => u \in crawledLinks

\* A crawl ran to its end, one fetch at a time, through a layer whose
\* frontier held a URL that had failed in an earlier layer: a page fetched
\* in the layer of the failure or later links to it.
C15_Witness ==
    /\ pc = "done"
    /\ ctxErr = "nil"
    /\ maxConcurrency = 1
    /\ \E u \in Failed : \E v \in Urls :
          /\ u \in LinksOf(v)
          /\ fetchLayer[v] >= fetchLayer[u]
          /\ fetchLayer[v] + 1 < depth

C17_ErrorCallbackOncePerFailure ==
    onError = "set" =>
        \A u \in Urls :
            IF u \in Failed
            THEN errDispatched[u] = 1 /\ errArg[u] = pages[u].kind
            ELSE errDispatched[u] = 0 /\ errArg[u] = "none"

\* A crawl with an error callback ended after a fetch error on one URL, an
\* extraction error on another, and a successful fetch.
C17_Witness ==
    /\ pc = "done"
    /\ onError = "set"
    /\ \E u, v, w \in Urls :
          /\ pages[u].kind = "fetchErr"
          /\ pages[v].kind = "extractErr"
          /\ pages[w].kind = "ok"

\* C18: a panic of a callback never leaves its goroutine, and the step of a
\* callback goroutine, panicking or not, changes nothing Crawl or the
\* fetching goroutines read.  Crawl returns a nil error, and where the
\* result is a function of the fetcher's responses (one fetch at a time, no
\* cancellation) it is the same set whether callbacks panicked or not.
C18_PanicDoesNotPropagate ==
    /\ [](~crashed)
    /\ []((pc = "done" /\ ValidArgs /\ cbRecovered) => err = "nil")
    /\ []((pc = "done" /\ ValidArgs /\ maxConcurrency = 1 /\ ctxErr # "Canceled") =>
             crawledLinks = Within(depth))
    /\ [][cbPending' < cbPending =>
            UNCHANGED <<depth, maxConcurrency, linkFound, onError, ctxErr, pc,
                        currentDepth, batches, batchNo, linksAtDepth,
                        visitedLinks, result, tasks, crawledLinks, err, pages,
                        fetchCount, lfDispatched, errDispatched>>]_vars

\* Crawl returned links beyond the seed with a nil error, and the one
\* callback goroutine it started has panicked and been recovered.
C18_Witness ==
    /\ pc = "done"
    /\ err = "nil"
    /\ cbRecovered
    /\ cbPending = 0
    /\ CallbacksDispatched = 1
    /\ Cardinality(crawledLinks) >= 2

\* C19: Crawl returns in every run in which Crawl and the fetching
\* goroutines keep running, also in those where no callback ever returns.
C19_CrawlCompletes == <>(pc = "done")

\* Crawl returned while every callback goroutine it started, three or more
\* of both kinds, had not finished.
C19_Witness ==
    /\ pc = "done"
    /\ linkFound = "set"
    /\ onError = "set"
    /\ cbPending >= 3
    /\ cbPending = CallbacksDispatched
    /\ ~cbRecovered
    /\ \E u \in Urls : errDispatched[u] > 0

\* C20 as stated: with a linkFound callback configured, one callback
\* goroutine is started for every URL of the final result, the seed
\* included, and none for any other URL.
C20_LinkFoundOncePerResultUrl ==
    (pc = "done" /\ ValidArgs /\ linkFound = "set") =>
        \A u \in Urls : lfDispatched[u] = IF u \in crawledLinks THEN 1 ELSE 0

\* C20 amended: with a linkFound callback configured, one callback goroutine
\* is started for every URL the map holds other than the seed, hence for
\* every URL of the final result but the seed, and never one for the seed.
C20_LinkFoundOncePerFoundUrl ==
    linkFound = "set" =>
        /\ \A u \in Urls :
              lfDispatched[u] = IF visitedLinks[u] # "absent" /\ u # Seed THEN 1 ELSE 0
        /\ (pc = "done" /\ ValidArgs) =>
              \A u \in Urls :
                  lfDispatched[u] = IF u \in crawledLinks \ {Seed} THEN 1 ELSE 0

\* A crawl with a linkFound callback returned the seed, which a page links
\* to, and a URL that two pages link to.
C20_Witness ==
    /\ pc = "done"
    /\ linkFound = "set"
    /\ Seed \in crawledLinks
    /\ \E v \in Urls : Seed \in LinksOf(v)
    /\ \E u \in crawledLinks \ {Seed} : \E v, w \in Urls :
          v # w /\ u \in LinksOf(v) /\ u \in LinksOf(w)

\* C22: without cancellation the set Crawl returns is a function of its
\* arguments and of the fetcher's responses alone, whatever the scheduling of
\* the goroutines and whatever maxConcurrency: it is the set of URLs reached
\* from the seed in at most depth steps through the pages the fetcher serves.
C22_ResultIndependentOfSchedule ==
    (pc = "done" /\ ValidArgs /\ ctxErr = "nil")
        => crawledLinks = Within(depth)

\* C23: no step removes a key of visitedLinks, and no step turns the value of
\* a key from true (fetch launched) back to false (discovered only).
C23_VisitedOnlyGrows ==
    [][\A u \in Urls :
          /\ visitedLinks[u] # "absent" => visitedLinks'[u] # "absent"
          /\ visitedLinks[u] = "true" => visitedLinks'[u] = "true"]_vars

\* C23 witness: Crawl has returned after a fetch failed and after a later
\* page linked back to a URL that had already been fetched; both URLs are
\* still in the map with the value true.
C23_Witness ==
    /\ pc = "done"
    /\ \E u \in Failed : visitedLinks[u] = "true"
    /\ \E u, v \in Urls :
          /\ u \in LinksOf(v)
          /\ fetchCount[u] > 0
          /\ fetchLayer[u] < fetchLayer[v]
          /\ visitedLinks[u] = "true"

\* C24: Crawl eventually returns, and on the way no URL is expanded twice:
\* the number of fetches never exceeds the number of distinct URLs in the
\* visited map.
C24_ReturnsWithBoundedFetches ==
    /\ <>(pc = "done")
    /\ [](SumFetches(Urls) <= Cardinality({u \in Urls : visitedLinks[u] = "true"}))

\* C24 witness: Crawl has returned from a crawl of a cyclic graph (the seed
\* links to a page that links back to the seed) deep enough to meet the cycle.
C24_Witness ==
    /\ pc = "done"
    /\ ValidArgs
    /\ depth >= 3
    /\ ctxErr = "nil"
    /\ \E u \in Urls \ {Seed} :
          /\ u \in LinksOf(Seed)
          /\ Seed \in LinksOf(u)
          /\ fetchCount[u] = 1
    /\ fetchCount[Seed] = 1

\* C25: Normalize is idempotent: normalizing the URL Normalize has returned
\* gives that URL again.
C25_NormalizeIdempotent ==
    lxPc = "normalized" => Normalize(normalizedUrl) = normalizedUrl

\* C26: the host Normalize returns is the host it was given without its
\* first four characters when that host begins with "www.", and the host it
\* was given otherwise.
C26_StripsOnlyLeadingWww ==
    lxPc = "normalized"
        => normalizedUrl.Host =
               IF HasPrefix(urlToNormalize.Host, Www)
               THEN SubSeq(urlToNormalize.Host, Len(Www) + 1,
                           Len(urlToNormalize.Host))
               ELSE urlToNormalize.Host

\* C27: the sequence Extract returns holds no two links with the same
\* canonical string; its strings are those of the links found in the
\* document, in the order of their first occurrence; and two hrefs that
\* differ only by a "www." before the host or a "/" after the path give the
\* same string.
C27_NoDuplicatesFirstOccurrenceOrder ==
    (lxPc = "extracted" /\ extractErr = "nil")
        => LET out == linksWithoutDuplicates
               hrefs == webpageContent.hrefs
               found == searchDomainMatchingLinks(webpageURL, hrefs)
               FirstAt(str) ==
                   CHOOSE i \in 1..Len(found) :
                       /\ String(found[i]) = str
                       /\ \A j \in 1..(i - 1) : String(found[j]) # str
           IN  /\ \A i, j \in 1..Len(out) :
                      i # j => String(out[i]) # String(out[j])
               /\ {String(out[i]) : i \in 1..Len(out)}
                      = {String(found[i]) : i \in 1..Len(found)}
               /\ \A i, j \in 1..Len(out) :
                      i < j => FirstAt(String(out[i])) < FirstAt(String(out[j]))
               /\ \A i, j \in 1..Len(hrefs) :
                      (/\ hrefs[i] # BadHref
                       /\ hrefs[j] # BadHref
                       /\ SameButWwwOrSlash(hrefs[i], hrefs[j]))
                          => Cardinality({k \in 1..Len(out) :
                                 String(out[k]) \in
                                     {String(Resolved(webpageURL, hrefs[i])),
                                      String(Resolved(webpageURL, hrefs[j]))}}) <= 1

\* C27 witness: Extract has returned one link for a page with two anchors
\* whose hrefs differ by the "www." before the host and by the "/" after
\* the path.
C27_Witness ==
    /\ lxPc = "extracted"
    /\ webpageURL.Host = TestHost
    /\ Len(webpageContent.hrefs) = 2
    /\ webpageContent.hrefs[1] =
           [Scheme |-> "https", Host |-> TestHost, Path |-> <<"/", "a", "/">>]
    /\ webpageContent.hrefs[2] =
           [Scheme |-> "https", Host |-> Www \o TestHost, Path |-> <<"/", "a">>]
    /\ Len(linksWithoutDuplicates) = 1

\* C28: for a page all of whose anchors reference another host than the
\* page's, and for a page with no anchors, Extract returns the empty
\* sequence.
C28_OnlyBaseHostLinks ==
    (/\ lxPc = "extracted"
     /\ extractErr = "nil"
     /\ \A i \in 1..Len(webpageContent.hrefs) :
           /\ webpageContent.hrefs[i] # BadHref
           /\ webpageContent.hrefs[i].Host # <<>>
           /\ Normalize(webpageContent.hrefs[i]).Host
                  # Normalize(webpageURL).Host)
        => linksWithoutDuplicates = <<>>

\* C29: for a page all of whose anchors have a mailto href, Extract returns
\* the empty sequence.
C29_IgnoresNonHttpLinks ==
    (/\ lxPc = "extracted"
     /\ extractErr = "nil"
     /\ \A i \in 1..Len(webpageContent.hrefs) :
           webpageContent.hrefs[i].Scheme = "mailto")
        => linksWithoutDuplicates = <<>>

\* C30: an href with an empty host or an empty scheme gives the link made of
\* the page's scheme, the page's host and the href's path without trailing
\* "/"; an href with both gives, when its host matches, the link with its own
\* scheme and host; and Extract returns no other link.
C30_RelativeResolvedAgainstBase ==
    (lxPc = "extracted" /\ extractErr = "nil")
        => LET out == linksWithoutDuplicates
               hrefs == webpageContent.hrefs
               outStrings == {String(out[i]) : i \in 1..Len(out)}
               OnBase(h) == [Scheme |-> webpageURL.Scheme,
                             Host |-> webpageURL.Host,
                             Path |-> TrimRight(h.Path, "/")]
           IN  /\ \A i \in 1..Len(hrefs) :
                      (hrefs[i] # BadHref
                           /\ (hrefs[i].Host = <<>> \/ hrefs[i].Scheme = ""))
                          => String(OnBase(hrefs[i])) \in outStrings
               /\ \A k \in 1..Len(out) :
                      \E i \in 1..Len(hrefs) :
                          /\ hrefs[i] # BadHref
                          /\ IF hrefs[i].Host = <<>> \/ hrefs[i].Scheme = ""
                             THEN out[k] = OnBase(hrefs[i])
                             ELSE /\ out[k].Scheme = hrefs[i].Scheme
                                  /\ out[k].Host = Normalize(hrefs[i]).Host
                                  /\ out[k].Path = TrimRight(hrefs[i].Path, "/")

\* C30 witness: Extract has returned two links for a page with a relative
\* href and an absolute href of the page's host.
C30_Witness ==
    /\ lxPc = "extracted"
    /\ webpageURL.Host = TestHost
    /\ Len(webpageContent.hrefs) = 2
    /\ webpageContent.hrefs[1] =
           [Scheme |-> "", Host |-> <<>>, Path |-> <<"/", "a", "/">>]
    /\ webpageContent.hrefs[2] =
           [Scheme |-> "mailto", Host |-> TestHost, Path |-> <<>>]
    /\ linksWithoutDuplicates =
           <<[Scheme |-> "https", Host |-> TestHost, Path |-> <<"/", "a">>],
             [Scheme |-> "mailto", Host |-> TestHost, Path |-> <<>>]>>

C34_StreamClosedOncePerFetch ==
    \A u \in Urls :
        closed[u] = IF pages[u].kind \in {"ok", "extractErr"}
                    THEN fetchCount[u]
                    ELSE 0

\* C34 witness: Crawl has returned after a page was extracted, the
\* extraction of another failed and the fetch of a third failed; the first
\* two streams are closed once.
C34_Witness ==
    /\ pc = "done"
    /\ \E u, v, w \in Urls :
          /\ pages[u].kind = "ok" /\ closed[u] = 1
          /\ pages[v].kind = "extractErr" /\ closed[v] = 1
          /\ pages[w].kind = "fetchErr" /\ closed[w] = 0 /\ fetchCount[w] = 1

\* C38: the map changes only in a step of the goroutine that runs Crawl (the
\* launch loop of a batch or the marking loop of a layer), never in a step
\* of a goroutine of a batch or of a callback.
C38_MapOnlyTouchedByCrawl ==
    [][visitedLinks' # visitedLinks
          => /\ <<pc, currentDepth, batchNo>>' # <<pc, currentDepth, batchNo>>
             /\ \A i \in 1..Len(tasks) : tasks[i].pc = "done"
             /\ cbPending' >= cbPending]_vars

\* C38 witness: Crawl has returned after goroutines of a batch of two have
\* run, one of them with a failed fetch, and the map holds fetched and
\* unfetched URLs.
C38_Witness ==
    /\ pc = "done"
    /\ maxConcurrency = 2
    /\ Failed # {}
    /\ \E u, v \in Urls \ {Seed} :
          /\ u # v
          /\ fetchLayer[u] = fetchLayer[v]
          /\ fetchCount[u] = 1
          /\ fetchCount[v] = 1
    /\ \E u \in Urls : visitedLinks[u] = "false"

\* C39: every URL in the map but the seed is a link of a page that was
\* fetched and extracted with success and that is in the map; and the URLs
\* Crawl returns are reachable from the seed through such pages.
C39_VisitedWereExtracted ==
    /\ \A u \in Urls \ {Seed} :
          visitedLinks[u] # "absent"
              => \E v \in Urls :
                    /\ pages[v].kind = "ok"
                    /\ u \in Range(pages[v].links)
                    /\ visitedLinks[v] # "absent"
    /\ pc = "done" => crawledLinks \subseteq Within(NumUrls)

\* C39 witness: Crawl has returned a URL two links away from the seed, and a
\* fetch has failed.
C39_Witness ==
    /\ pc = "done"
    /\ Failed # {}
    /\ \E u \in crawledLinks : u \notin Within(1) /\ u \in Within(2)

\* C40: while the error of the context is DeadlineExceeded a batch leaves
\* the list of the layer only by being dispatched, and Crawl returns only
\* after the last layer.
C40_DeadlineDoesNotStopCrawl ==
    /\ [][(ctxErr = "DeadlineExceeded" /\ batches # <<>> /\ batches' # batches)
             => /\ batches' = Tail(batches)
                /\ batchNo' = batchNo + 1
                /\ pc' = "wait"]_vars
    /\ []((pc = "done" /\ ValidArgs /\ ctxErr = "DeadlineExceeded")
             => currentDepth = depth)

\* C40 witness: Crawl has returned from a crawl of three layers with batches
\* of one, two of them in the second layer, under a context whose deadline
\* has expired.
C40_Witness ==
    /\ pc = "done"
    /\ ctxErr = "DeadlineExceeded"
    /\ depth = 3
    /\ maxConcurrency = 1
    /\ currentDepth = 3
    /\ \E u, v \in Urls \ {Seed} :
          /\ u # v
          /\ fetchLayer[u] = 1
          /\ fetchLayer[v] = 1
    /\ \E u \in Urls : fetchLayer[u] = 2

\* C31: with numberOfRetries >= 1 the inner fetcher is called at most
\* numberOfRetries times and never after a success; the call returns the
\* page and a nil error when an attempt succeeded, and otherwise, after
\* numberOfRetries attempts, no page and the error of the last attempt.
C31_RetriesUntilSuccessOrLastError ==
    retry.pc # "idle" /\ retry.numberOfRetries >= 1
        => LET a == retry.attempts
               n == retry.numberOfRetries
           IN  /\ Len(a) <= n
               /\ \A k \in 1..(Len(a) - 1) : a[k] # "ok"
               /\ retry.pc = "done"
                     => IF a # <<>> /\ a[Len(a)] = "ok"
                        THEN retry.webpageContent = "page" /\ retry.err = "nil"
                        ELSE /\ Len(a) = n
                             /\ retry.webpageContent = ""
                             /\ retry.err = a[n]

\* C31 witness: a call with three retries has returned the page of the third
\* attempt after two different errors.
C31_Witness ==
    /\ retry.pc = "done"
    /\ retry.numberOfRetries = 3
    /\ retry.attempts = <<"e1", "e2", "ok">>
    /\ retry.err = "nil"

\* C32: the delays slept after the failed attempts of one call grow with the
\* attempt number.
C32_DelaysGrow ==
    retry.pc # "idle"
        => \A i, j \in 1..Len(retry.slept) :
               i < j => retry.slept[i] < retry.slept[j]

\* C33: with numberOfRetries <= 0 the call makes exactly one attempt on the
\* inner fetcher and returns what that attempt returned.
C33_NoRetriesOneAttempt ==
    (retry.pc = "done" /\ retry.numberOfRetries <= 0)
        => /\ Len(retry.attempts) = 1
           /\ retry.err = IF retry.attempts[1] = "ok" THEN "nil"
                          ELSE retry.attempts[1]

\* C37: when Crawl is called with depth >= 1 and maxConcurrency >= 1, every
\* level of crawlInner builds its batches with the maxConcurrency of the
\* caller, and Crawl eventually returns.
C37_InnerUsesCallerBatchSize ==
    /\ [](inner.pc # "idle" /\ inner.args.maxConcurrency >= 1
             => inner.maxConcurrency = inner.args.maxConcurrency)
    /\ (inner.pc # "idle" /\ inner.args.depth >= 1
            /\ inner.args.maxConcurrency >= 1 /\ inner.ctxErr = "nil")
           => <>(inner.pc = "done")

\* C35: when Concurrent.Crawl returns under a context that was not
\* cancelled, no URL whose fetch failed is among the returned links, and the
\* error is not nil if a fetch failed.
C35_FailedUrlAbsentAndError ==
    (conc.pc = "done" /\ ~conc.ctxDone)
        => \A u \in ConcUrls :
               conc.pages[u].kind = "err"
                   => u \notin conc.crawledLinks /\ conc.err # "nil"

\* C36: Concurrent.Crawl called with a cancelled context returns no link and
\* a nil error.
C36_PreCancelledConcurrentEmpty ==
    (conc.pc = "done" /\ conc.preCancelled)
        => conc.crawledLinks = {} /\ conc.err = "nil"
====
